---- MODULE Spec2Model ----
(***************************************************************************)
(* Model of the button-task experiment controller.                         *)
(*   src/try_this_with_buttons.py            the extended variant ("ext")  *)
(*   src/MultiColor_MultiButton_Conditions.py   the base variant ("base")  *)
(* Module-level names of the Python program are the global variables,      *)
(* every thread has a slot in Workers with its position (pc) and its       *)
(* local variables (frame).                                                *)
(***************************************************************************)
EXTENDS Integers, Sequences, FiniteSets, TLC

\* ------------------------------------------------------------ bounds
\* Thread slots: threads alive at the same time.
MaxWorkers == 2
\* Archetypes of the extended list that build_conditions is run on (a prefix).
NumConds == 4
\* Clock ticks from the start of wait_for_press to its deadline (10000 ms); a
\* poll iteration (10 ms) may or may not reach the next tick.
TimeoutTicks == 1
\* Lines the serial input buffer holds.
MaxBuf == 1
\* Conditions, and trials per condition, of the run the controller is started on.
RunConds == 3
RunTrials == 2
\* Length of the trial lists run_trials is applied to on its own.
MaxTrials == 2

\* Actions of the operator (presses of a control, selections) in one run.
MaxClicks == 3
\* Buttons of the panel (NUM_BUTTONS = 4 on the hardware the source is set for).
NUM_BUTTONS == 2

\* ------------------------------------------------------------ program constants
TrialsSimple == 10
TrialsCommon == 8
TrialsRare == 2

None == -1
NoName == "None"

Workers == 1..MaxWorkers
Buttons == 0..(NUM_BUTTONS - 1)
Patterns == {"GO_BLUE", "STOP_RED", "ONLY_BLUE", "ONLY_RED"}

\* ------------------------------------------------------------ helpers
Rep(p, n) == [j \in 1..n |-> [pattern |-> p]]

Range(s) == {s[j] : j \in 1..Len(s)}

Count(s, v) == Cardinality({j \in 1..Len(s) : s[j] = v})

\* faulty variant: draws with replacement instead of reordering
ShuffleResample(s) == [1..Len(s) -> Range(s)]

\* random.shuffle(s): every reordering of s is a possible outcome
Shuffle(s) ==
    {q \in [1..Len(s) -> Range(s)] : \A v \in Range(s) : Count(q, v) = Count(s, v)}

\* list.pop(i), 1-based
RemoveAt(s, i) == SubSeq(s, 1, i - 1) \o SubSeq(s, i + 1, Len(s))

Names(conds) == [j \in 1..Len(conds) |-> conds[j].name]

\* ------------------------------------------------------------ archetypes
ExtArchetypes ==
    << [name |-> "Go - Feet Apart", trials |-> Rep("GO_BLUE", TrialsSimple)],
       [name |-> "No Go - Feet Apart",
        trials |-> Rep("GO_BLUE", TrialsCommon) \o Rep("STOP_RED", TrialsRare)],
       [name |-> "No Shift - Feet Apart", trials |-> Rep("ONLY_BLUE", TrialsSimple)],
       [name |-> "Shift - Feet Apart",
        trials |-> Rep("ONLY_BLUE", TrialsCommon) \o Rep("ONLY_RED", TrialsRare)],
       [name |-> "Go - Feet Together", trials |-> Rep("GO_BLUE", TrialsSimple)],
       [name |-> "No Go - Feet Together",
        trials |-> Rep("GO_BLUE", TrialsCommon) \o Rep("STOP_RED", TrialsRare)],
       [name |-> "No Shift - Feet Together", trials |-> Rep("ONLY_BLUE", TrialsSimple)],
       [name |-> "Shift - Feet Together",
        trials |-> Rep("ONLY_BLUE", TrialsCommon) \o Rep("ONLY_RED", TrialsRare)] >>

\* the base variant builds four trial lists; start_experiment names them
BaseArchetypes ==
    << [name |-> "Go", trials |-> Rep("GO_BLUE", TrialsSimple)],
       [name |-> "No-Go",
        trials |-> Rep("GO_BLUE", TrialsCommon) \o Rep("STOP_RED", TrialsRare)],
       [name |-> "No-Shift", trials |-> Rep("ONLY_BLUE", TrialsSimple)],
       [name |-> "Shift",
        trials |-> Rep("ONLY_BLUE", TrialsCommon) \o Rep("ONLY_RED", TrialsRare)] >>

Archetypes(variant) ==
    IF variant = "ext"
    THEN SubSeq(ExtArchetypes, 1, IF NumConds < 8 THEN NumConds ELSE 8)
    ELSE BaseArchetypes

\* for i in [1, 3, 5, 7] (0-based) / conditions 2 and 4 of the base variant
ShuffledIdx(variant) == {i \in {2, 4, 6, 8} : i <= Len(Archetypes(variant))}

\* the patterns the reshuffle loop of condition i keeps apart
RedClass(variant, i) ==
    IF variant = "ext" THEN {"STOP_RED", "ONLY_RED"}
    ELSE IF i = 2 THEN {"STOP_RED"} ELSE {"ONLY_RED"}

\* faulty variant: the test stops one pair short of the end of the list
consecutive_red_short(trials, red) ==
    \E j \in 1..(Len(trials) - 2) :
        trials[j].pattern \in red /\ trials[j + 1].pattern \in red

\* faulty variant: the test rejects every list that holds a red trial at all
consecutive_red_any(trials, red) ==
    \E j \in 1..Len(trials) : trials[j].pattern \in red

\* the test of the reshuffle loop
consecutive_red(trials, red) ==
    \E j \in 1..(Len(trials) - 1) :
        trials[j].pattern \in red /\ trials[j + 1].pattern \in red

\* ------------------------------------------------------------ state
VARIABLES
    \* module-level names of the extended variant
    canonical_conditions, remaining_conditions, current_condition_name,
    override_condition_name, is_redo_run, stop_requested,
    \* widgets: state of the four buttons, values of the override dropdown
    start_btn, stop_btn, next_btn, redo_btn, dropdown_values,
    \* the serial link: lines waiting to be read, the command the last step wrote
    in_waiting, sent,
    \* the uncaught exception the last step ended a thread with
    exc,
    \* threads: position and local variables
    pc, frame,
    \* history: the names of the conditions whose run has ended with the
    \* completion beep, the number of actions the operator has taken
    completed, clicks

globals == <<canonical_conditions, remaining_conditions, current_condition_name,
             override_condition_name, is_redo_run, stop_requested>>
widgets == <<start_btn, stop_btn, next_btn, redo_btn, dropdown_values>>
vars == <<globals, widgets, in_waiting, sent, exc, pc, frame, completed, clicks>>

\* current_conditions = [] and current_index = 0 are never assigned again
current_conditions == <<>>
current_index == 0

\* The locals of a thread.  sent_blue, sent_only_red and stop_seen are history
\* of the current call of run_trials: the button its last GO_BLUE/ONLY_BLUE
\* command and its last ONLY_RED command named, and whether Stop was pressed
\* during the call.  started_by is history of the thread up to its call of
\* run_trials: the function it entered run_current_condition from.
NoFrame ==
    [variant |-> "ext", base_conditions |-> <<>>, i |-> 0, built |-> <<>>,
     cond_name |-> NoName, run_type |-> NoName, trials |-> <<>>, trial_num |-> 0,
     last_blue |-> None, last_only_red |-> None, button |-> None,
     expected_buttons |-> {}, elapsed |-> 0, line |-> <<>>, press |-> None,
     sent_blue |-> None, sent_only_red |-> None, stop_seen |-> FALSE,
     started_by |-> NoName]

NoCommand == [cmd |-> "", buttons |-> <<>>, by |-> 0, cond |-> NoName, trial |-> 0]

\* the state when the module has been loaded, before mainloop handles an event
Init ==
    /\ canonical_conditions = <<>>
    /\ remaining_conditions = <<>>
    /\ current_condition_name = NoName
    /\ override_condition_name = NoName
    /\ is_redo_run = FALSE
    /\ stop_requested = FALSE
    /\ start_btn = "normal"
    /\ stop_btn = "disabled"
    /\ next_btn = "disabled"
    /\ redo_btn = "disabled"
    /\ dropdown_values = <<>>
    /\ in_waiting = <<>>
    /\ sent = NoCommand
    /\ exc = NoName
    /\ pc = [w \in Workers |-> "none"]
    /\ frame = [w \in Workers |-> NoFrame]
    /\ completed = {}
    /\ clicks = 0

\* the step raises nothing
Quiet == exc' = NoName

\* the step ends no run with the completion beep
NoBeep == completed' = completed

\* the step is one of the program
Program == clicks' = clicks

\* the step is an action of the operator
Click == clicks < MaxClicks /\ clicks' = clicks + 1

\* the step writes nothing to the link
Silent == sent' = NoCommand

Goto(w, p) == pc' = [pc EXCEPT ![w] = p]

\* a thread ends: its locals are gone
Exit(w) == pc' = [pc EXCEPT ![w] = "none"] /\ frame' = [frame EXCEPT ![w] = NoFrame]

\* ------------------------------------------------------------ build_conditions
\* entry: the archetype list is constructed
BuildBegin(w) ==
    /\ pc[w] = "build_conditions"
    /\ frame' = [frame EXCEPT ![w].base_conditions = Archetypes(frame[w].variant),
                              ![w].i = 2]
    /\ Goto(w, "shuffle")
    /\ UNCHANGED <<globals, widgets, in_waiting>>
    /\ Quiet /\ Silent /\ NoBeep /\ Program

\* one pass of "while True": shuffle in place, leave the loop if no two reds touch
BuildShuffle(w) ==
    LET f == frame[w] IN
    /\ pc[w] = "shuffle"
    /\ f.i \in ShuffledIdx(f.variant)
    /\ \E q \in Shuffle(f.base_conditions[f.i].trials) :
         frame' = [frame EXCEPT
            ![w].base_conditions[f.i].trials = q,
            ![w].i = IF consecutive_red(q, RedClass(f.variant, f.i)) THEN f.i ELSE f.i + 2]
    /\ UNCHANGED <<globals, widgets, in_waiting, pc>>
    /\ Quiet /\ Silent /\ NoBeep /\ Program

\* after the last reshuffle loop: the extended variant shuffles the order; return
BuildReturn(w) ==
    LET f == frame[w] IN
    /\ pc[w] = "shuffle"
    /\ f.i \notin ShuffledIdx(f.variant)
    /\ \E q \in (IF f.variant = "ext" THEN Shuffle(f.base_conditions)
                 ELSE {f.base_conditions}) :
         frame' = [frame EXCEPT ![w].built = q, ![w].base_conditions = <<>>, ![w].i = 0]
    /\ Goto(w, "built")
    /\ UNCHANGED <<globals, widgets, in_waiting>>
    /\ Quiet /\ Silent /\ NoBeep /\ Program

\* build_conditions on its own, in either variant
InitBuild ==
    /\ Init!1 /\ Init!2 /\ Init!3 /\ Init!4 /\ Init!5 /\ Init!6 /\ Init!7
    /\ Init!8 /\ Init!9 /\ Init!10 /\ Init!11 /\ Init!12 /\ Init!13 /\ Init!14 /\ Init!17 /\ Init!18
    /\ pc = [w \in Workers |-> IF w = 1 THEN "build_conditions" ELSE "none"]
    /\ \E v \in {"ext", "base"} :
         frame = [w \in Workers |-> IF w = 1 THEN [NoFrame EXCEPT !.variant = v] ELSE NoFrame]

NextBuild == BuildBegin(1) \/ BuildShuffle(1) \/ BuildReturn(1)

SpecBuild == InitBuild /\ [][NextBuild]_vars

\* the pass of "while True" whose shuffle passes the test: "break"
BuildAccept(w) == BuildShuffle(w) /\ frame'[w].i # frame[w].i

\* build_conditions under a fair random.shuffle: the call is not suspended for
\* ever, and an order that random.shuffle can produce at every pass is not
\* avoided for ever
SpecBuildFair ==
    InitBuild /\ [][NextBuild]_vars /\ WF_vars(NextBuild) /\ WF_vars(BuildAccept(1))


\* ------------------------------------------------------------ the serial link
\* An inbound line, as the tokens line.strip().split() yields.
Digits == <<"0", "1", "2", "3", "4", "5", "6", "7", "8", "9">>

\* the lines tried: a press of each button, a press with an index that is no
\* button, PRESSED without an index, PRESSED with a word, an unrelated line
Lines ==
    {<<"PRESSED", Digits[b + 1]>> : b \in Buttons}
    \cup {<<"PRESSED", "9">>, <<"PRESSED">>, <<"PRESSED", "x">>, <<"READY">>}

\* line.startswith("PRESSED")
StartsWithPressed(line) == Len(line) > 0 /\ line[1] = "PRESSED"

\* int(token): defined on the decimal tokens only
IsInt(tok) == \E n \in 0..9 : Digits[n + 1] = tok
IntOf(tok) == CHOOSE n \in 0..9 : Digits[n + 1] = tok

\* the peer writes a line
Arrive ==
    /\ Len(in_waiting) < MaxBuf
    /\ \E line \in Lines : in_waiting' = Append(in_waiting, line)
    /\ UNCHANGED <<globals, widgets, pc, frame>>
    /\ Quiet /\ Silent /\ NoBeep /\ Program

\* ------------------------------------------------------------ wait_for_press
Return(w, value) ==
    /\ frame' = [frame EXCEPT ![w].press = value, ![w].line = <<>>, ![w].elapsed = 0]
    /\ Goto(w, "waited")

\* an uncaught exception ends the thread
Raise(w, e) == exc' = e /\ Exit(w)

\* the deadline has passed: the while condition fails
WaitTimeout(w) ==
    /\ pc[w] = "wait_for_press"
    /\ frame[w].elapsed >= TimeoutTicks
    /\ Return(w, None)
    /\ UNCHANGED <<globals, widgets, in_waiting>>
    /\ Quiet /\ Silent /\ NoBeep /\ Program

\* the extended variant looks at stop_requested first
WaitStopped(w) ==
    /\ pc[w] = "wait_for_press"
    /\ frame[w].elapsed < TimeoutTicks
    /\ frame[w].variant = "ext" /\ stop_requested
    /\ Return(w, None)
    /\ UNCHANGED <<globals, widgets, in_waiting>>
    /\ Quiet /\ Silent /\ NoBeep /\ Program

\* faulty variant: the loop does not look at stop_requested
PollingNoStop(w) ==
    /\ pc[w] = "wait_for_press"
    /\ frame[w].elapsed < TimeoutTicks

Polling(w) ==
    /\ pc[w] = "wait_for_press"
    /\ frame[w].elapsed < TimeoutTicks
    /\ ~(frame[w].variant = "ext" /\ stop_requested)

\* time.sleep(0.01): the clock may reach its next tick
Sleep10ms(f) == {[f EXCEPT !.elapsed = @ + dt] : dt \in {0, 1}}

\* nothing to read: sleep 10 ms
WaitIdle(w) ==
    /\ Polling(w)
    /\ in_waiting = <<>>
    /\ \E g \in Sleep10ms(frame[w]) : frame' = [frame EXCEPT ![w] = g]
    /\ UNCHANGED pc
    /\ UNCHANGED <<globals, widgets, in_waiting>>
    /\ Quiet /\ Silent /\ NoBeep /\ Program

\* a line is read and is no press of an expected button: sleep 10 ms
WaitDiscard(w) ==
    /\ Polling(w)
    /\ in_waiting # <<>>
    /\ LET line == Head(in_waiting) IN
         \/ ~StartsWithPressed(line)
         \/ /\ StartsWithPressed(line) /\ Len(line) >= 2 /\ IsInt(line[2])
            /\ IntOf(line[2]) \notin frame[w].expected_buttons
    /\ in_waiting' = Tail(in_waiting)
    /\ \E g \in Sleep10ms([frame[w] EXCEPT !.line = Head(in_waiting)]) :
         frame' = [frame EXCEPT ![w] = g]
    /\ UNCHANGED pc
    /\ UNCHANGED <<globals, widgets>>
    /\ Quiet /\ Silent /\ NoBeep /\ Program

\* faulty variant: a press is returned without looking at expected_buttons
WaitPressedAny(w) ==
    /\ Polling(w)
    /\ in_waiting # <<>>
    /\ LET line == Head(in_waiting) IN
         /\ StartsWithPressed(line) /\ Len(line) >= 2 /\ IsInt(line[2])
         /\ Return(w, IntOf(line[2]))
    /\ in_waiting' = Tail(in_waiting)
    /\ UNCHANGED <<globals, widgets>>
    /\ Quiet /\ Silent /\ NoBeep /\ Program

\* a press of an expected button is read
WaitPressed(w) ==
    /\ Polling(w)
    /\ in_waiting # <<>>
    /\ LET line == Head(in_waiting) IN
         /\ StartsWithPressed(line) /\ Len(line) >= 2 /\ IsInt(line[2])
         /\ IntOf(line[2]) \in frame[w].expected_buttons
         /\ Return(w, IntOf(line[2]))
    /\ in_waiting' = Tail(in_waiting)
    /\ UNCHANGED <<globals, widgets>>
    /\ Quiet /\ Silent /\ NoBeep /\ Program

\* line.split()[1] or int() raises
WaitRaise(w) ==
    /\ Polling(w)
    /\ in_waiting # <<>>
    /\ LET line == Head(in_waiting) IN
         /\ StartsWithPressed(line)
         /\ \/ Len(line) < 2 /\ Raise(w, "IndexError")
            \/ Len(line) >= 2 /\ ~IsInt(line[2]) /\ Raise(w, "ValueError")
    /\ in_waiting' = Tail(in_waiting)
    /\ UNCHANGED <<globals, widgets>>
    /\ Silent /\ NoBeep /\ Program

wait_for_press(w) ==
    \/ WaitTimeout(w) \/ WaitStopped(w) \/ WaitIdle(w)
    \/ WaitDiscard(w) \/ WaitPressed(w) \/ WaitRaise(w)


\* ------------------------------------------------------------ run_trials
\* faulty variant: b is not left out of the buttons before it
OthersThenDup(b) == [j \in 1..NUM_BUTTONS |-> IF j = NUM_BUTTONS THEN b ELSE j - 1]

\* [i for i in range(NUM_BUTTONS) if i != b], then b
OthersThen(b) ==
    [j \in 1..NUM_BUTTONS |->
        IF j = NUM_BUTTONS THEN b ELSE IF j - 1 < b THEN j - 1 ELSE j]

\* faulty variant: the last button is not left out
OptionsAll(last) == Buttons

\* options = [i for i in range(NUM_BUTTONS) if i != last]
Options(last) == {i \in Buttons : i # last}

\* the call run_trials(trials, cond_name)
Call_run_trials(w, trials, cond_name, run_type) ==
    frame' = [frame EXCEPT ![w] = [NoFrame EXCEPT !.variant = frame[w].variant,
                                                  !.trials = trials,
                                                  !.cond_name = cond_name,
                                                  !.run_type = run_type]]

Pattern(w) == frame[w].trials[frame[w].trial_num + 1].pattern

\* the for loop is exhausted
TrialsDone(w) ==
    /\ pc[w] = "run_trials"
    /\ frame[w].trial_num >= Len(frame[w].trials)
    /\ Goto(w, "ran")
    /\ UNCHANGED <<globals, widgets, in_waiting, frame>>
    /\ Quiet /\ Silent /\ NoBeep /\ Program

\* "if stop_requested: return" at the head of a trial (extended variant)
TrialsStopped(w) ==
    /\ pc[w] = "run_trials"
    /\ frame[w].trial_num < Len(frame[w].trials)
    /\ frame[w].variant = "ext" /\ stop_requested
    /\ Goto(w, "ran")
    /\ UNCHANGED <<globals, widgets, in_waiting, frame>>
    /\ Quiet /\ Silent /\ NoBeep /\ Program

send_arduino(w, cmd, buttons) ==
    sent' = [cmd |-> cmd, buttons |-> buttons, by |-> w, cond |-> frame[w].cond_name,
             trial |-> frame[w].trial_num]

\* the frame once the command naming button b is written
Sent(f, b) ==
    LET p == f.trials[f.trial_num + 1].pattern IN
    [f EXCEPT !.button = b,
              !.sent_blue = IF p \in {"GO_BLUE", "ONLY_BLUE"} THEN b ELSE @,
              !.sent_only_red = IF p = "ONLY_RED" THEN b ELSE @]

\* a trial picks its button and writes its command
TrialSend(w) ==
    LET f == frame[w] IN
    /\ pc[w] = "run_trials"
    /\ f.trial_num < Len(f.trials)
    /\ ~(f.variant = "ext" /\ stop_requested)
    /\ \E b \in (CASE Pattern(w) \in {"GO_BLUE", "ONLY_BLUE"} -> Options(f.last_blue)
                   [] Pattern(w) = "STOP_RED" -> Buttons
                   [] Pattern(w) = "ONLY_RED" -> Options(f.last_only_red)) :
         /\ send_arduino(w, Pattern(w),
                         IF Pattern(w) \in {"GO_BLUE", "STOP_RED"} THEN <<b>> ELSE OthersThen(b))
         /\ IF f.variant = "base" /\ Pattern(w) = "STOP_RED"
            THEN \* the base variant holds the light for 10 s and reads nothing
                 /\ frame' = [frame EXCEPT ![w] = Sent(f, b)]
                 /\ Goto(w, "sleep")
            ELSE /\ frame' = [frame EXCEPT ![w] = [Sent(f, b) EXCEPT
                                                     !.expected_buttons = {b}]]
                 /\ Goto(w, "wait_for_press")
    /\ UNCHANGED <<globals, widgets, in_waiting>>
    /\ Quiet /\ NoBeep /\ Program

\* the locals of the trial and of its wait_for_press are not read again
Over(f) ==
    [f EXCEPT !.button = None, !.expected_buttons = {}, !.elapsed = 0,
              !.line = <<>>, !.press = None]

NextTrial(w, f) == frame' = [frame EXCEPT ![w] = [Over(f) EXCEPT !.trial_num = @ + 1]]

\* faulty variant: the pause is taken after every trial
TrialWaitedPause(w) ==
    /\ pc[w] = "waited"
    /\ frame' = [frame EXCEPT ![w] = Over(frame[w])]
    /\ Goto(w, "sleep")
    /\ UNCHANGED <<globals, widgets, in_waiting>>
    /\ Quiet /\ Silent /\ NoBeep /\ Program

\* wait_for_press has returned: remember the button, pause or go on
TrialWaited(w) ==
    LET f == frame[w]
        g == CASE Pattern(w) \in {"GO_BLUE", "ONLY_BLUE"} -> [f EXCEPT !.last_blue = f.button]
               [] Pattern(w) = "ONLY_RED" -> [f EXCEPT !.last_only_red = f.button]
               [] Pattern(w) = "STOP_RED" -> f
    IN
    /\ pc[w] = "waited"
    /\ IF Pattern(w) = "STOP_RED" /\ f.press = None
       THEN NextTrial(w, g) /\ Goto(w, "run_trials")
       ELSE frame' = [frame EXCEPT ![w] = Over(g)] /\ Goto(w, "sleep")
    /\ UNCHANGED <<globals, widgets, in_waiting>>
    /\ Quiet /\ Silent /\ NoBeep /\ Program

\* the pause after a trial is over
TrialSlept(w) ==
    /\ pc[w] = "sleep"
    /\ NextTrial(w, frame[w])
    /\ Goto(w, "run_trials")
    /\ UNCHANGED <<globals, widgets, in_waiting>>
    /\ Quiet /\ Silent /\ NoBeep /\ Program

run_trials(w) ==
    TrialsDone(w) \/ TrialsStopped(w) \/ TrialSend(w) \/ TrialWaited(w) \/ TrialSlept(w)


\* ------------------------------------------------------------ threads
Free == {w \in Workers : pc[w] = "none"}

\* threading.Thread(target=...).start(): the new thread takes the first free slot
Start(w, target) ==
    /\ Free # {}
    /\ w = CHOOSE v \in Free : \A u \in Free : v <= u
    /\ pc' = [pc EXCEPT ![w] = target]

\* ------------------------------------------------------------ start_experiment
\* the Start button is pressed
StartClick ==
    /\ start_btn = "normal"
    /\ \E w \in Workers : Start(w, "start_experiment")
    /\ UNCHANGED <<globals, widgets, in_waiting, frame>>
    /\ Quiet /\ Silent /\ NoBeep /\ Click

\* the controls are disabled, the fixation cross is shown; time.sleep(2) begins
StartPrime(w) ==
    /\ pc[w] = "start_experiment"
    /\ start_btn' = "disabled"
    /\ next_btn' = "disabled"
    /\ Goto(w, "priming")
    /\ UNCHANGED <<globals, stop_btn, redo_btn, dropdown_values, in_waiting, frame>>
    /\ Quiet /\ Silent /\ NoBeep /\ Program

\* the settle period is over: beep(), then build_conditions() is called
StartBuild(w) ==
    /\ pc[w] = "priming"
    /\ Goto(w, "build_conditions")
    /\ UNCHANGED <<globals, widgets, in_waiting, frame>>
    /\ Quiet /\ Silent /\ NoBeep /\ Program

\* build_conditions has returned.  canonical_conditions and remaining_conditions
\* are assigned in start_experiment without a global declaration: they are
\* locals of the call, the module-level lists stay as they are.  The names of
\* the list go to the dropdown, in its order.
StartInstall(w) ==
    LET local_canonical_conditions == frame[w].built
        condition_names == Names(local_canonical_conditions)
    IN
    /\ pc[w] = "built"
    /\ stop_btn' = "normal"
    /\ dropdown_values' = condition_names
    /\ redo_btn' = "normal"
    /\ frame' = [frame EXCEPT ![w].built = <<>>, ![w].started_by = "start_experiment"]
    /\ Goto(w, "run_current_condition")
    /\ UNCHANGED <<globals, start_btn, next_btn, in_waiting>>
    /\ Quiet /\ Silent /\ NoBeep /\ Program

start_experiment(w) ==
    \/ StartPrime(w) \/ StartBuild(w)
    \/ BuildBegin(w) \/ BuildShuffle(w) \/ BuildReturn(w)
    \/ StartInstall(w)

\* ------------------------------------------------------------ run_current_condition
\* faulty variant: the Stop button is left enabled
RccDoneKeepsStop(w) ==
    /\ pc[w] = "run_current_condition"
    /\ remaining_conditions = <<>> /\ override_condition_name = NoName
    /\ start_btn' = "normal"
    /\ next_btn' = "disabled"
    /\ redo_btn' = "disabled"
    /\ Exit(w)
    /\ UNCHANGED <<globals, stop_btn, dropdown_values, in_waiting>>
    /\ Quiet /\ Silent /\ NoBeep /\ Program

\* nothing remains and no override is pending: the run is over
RccDone(w) ==
    /\ pc[w] = "run_current_condition"
    /\ remaining_conditions = <<>> /\ override_condition_name = NoName
    /\ start_btn' = "normal"
    /\ next_btn' = "disabled"
    /\ redo_btn' = "disabled"
    /\ stop_btn' = "disabled"
    /\ Exit(w)
    /\ UNCHANGED <<globals, dropdown_values, in_waiting>>
    /\ Quiet /\ Silent /\ NoBeep /\ Program

\* next(c[1] for c in canonical_conditions if c[0] == cond_name) finds nothing
RccNotFound(w) ==
    /\ pc[w] = "run_current_condition"
    /\ override_condition_name # NoName
    /\ \A j \in 1..Len(canonical_conditions) :
          canonical_conditions[j].name # override_condition_name
    /\ Raise(w, "StopIteration")
    /\ UNCHANGED <<globals, widgets, in_waiting>>
    /\ Silent /\ NoBeep /\ Program

\* faulty variant: the condition taken from the queue is its last
RccRunLast(w) ==
    LET c == remaining_conditions[Len(remaining_conditions)] IN
    /\ pc[w] = "run_current_condition"
    /\ remaining_conditions # <<>>
    /\ Call_run_trials(w, c.trials, c.name, "CANONICAL")
    /\ current_condition_name' = c.name
    /\ stop_requested' = FALSE
    /\ Goto(w, "run_trials")
    /\ UNCHANGED <<canonical_conditions, remaining_conditions, override_condition_name,
                   is_redo_run, widgets, in_waiting>>
    /\ Quiet /\ Silent /\ NoBeep /\ Program

\* faulty variant: the stop flag is left as it is when the condition starts
RccRunKeepsFlag(w) ==
    /\ pc[w] = "run_current_condition"
    /\ ~(remaining_conditions = <<>> /\ override_condition_name = NoName)
    /\ IF override_condition_name # NoName
       THEN \E j \in 1..Len(canonical_conditions) :
              /\ canonical_conditions[j].name = override_condition_name
              /\ \A k \in 1..(j - 1) :
                    canonical_conditions[k].name # override_condition_name
              /\ Call_run_trials(w, canonical_conditions[j].trials,
                                 override_condition_name, "REDO/MANUAL")
              /\ current_condition_name' = override_condition_name
       ELSE /\ Call_run_trials(w, remaining_conditions[1].trials,
                               remaining_conditions[1].name, "CANONICAL")
            /\ current_condition_name' = remaining_conditions[1].name
    /\ Goto(w, "run_trials")
    /\ UNCHANGED <<canonical_conditions, remaining_conditions, override_condition_name,
                   is_redo_run, stop_requested, widgets, in_waiting>>
    /\ Quiet /\ Silent /\ NoBeep /\ Program

\* the condition to run is the override if one is set, the head of the queue
\* otherwise; the stop flag is cleared and run_trials is called
RccRun(w) ==
    /\ pc[w] = "run_current_condition"
    /\ ~(remaining_conditions = <<>> /\ override_condition_name = NoName)
    /\ IF override_condition_name # NoName
       THEN \E j \in 1..Len(canonical_conditions) :
              /\ canonical_conditions[j].name = override_condition_name
              /\ \A k \in 1..(j - 1) :
                    canonical_conditions[k].name # override_condition_name
              /\ Call_run_trials(w, canonical_conditions[j].trials,
                                 override_condition_name, "REDO/MANUAL")
              /\ current_condition_name' = override_condition_name
       ELSE /\ Call_run_trials(w, remaining_conditions[1].trials,
                               remaining_conditions[1].name, "CANONICAL")
            /\ current_condition_name' = remaining_conditions[1].name
    /\ stop_requested' = FALSE
    /\ Goto(w, "run_trials")
    /\ UNCHANGED <<canonical_conditions, remaining_conditions, override_condition_name,
                   is_redo_run, widgets, in_waiting>>
    /\ Quiet /\ Silent /\ NoBeep /\ Program

\* faulty variant: the stopped branch returns without clearing the flag
RccStoppedKeepsFlag(w) ==
    /\ pc[w] = "ran"
    /\ stop_requested
    /\ Exit(w)
    /\ UNCHANGED <<globals, widgets, in_waiting>>
    /\ Quiet /\ Silent /\ NoBeep /\ Program

\* run_trials has returned with the stop flag set
RccStopped(w) ==
    /\ pc[w] = "ran"
    /\ stop_requested
    /\ stop_requested' = FALSE
    /\ Exit(w)
    /\ UNCHANGED <<canonical_conditions, remaining_conditions, current_condition_name,
                   override_condition_name, is_redo_run, widgets, in_waiting>>
    /\ Quiet /\ Silent /\ NoBeep /\ Program

\* for i, (name, _) in enumerate(remaining_conditions): if name == cond_name: pop(i); break
RemoveNamed(conds, cond_name) ==
    IF \E j \in 1..Len(conds) : conds[j].name = cond_name
    THEN RemoveAt(conds, CHOOSE j \in 1..Len(conds) :
                            /\ conds[j].name = cond_name
                            /\ \A k \in 1..(j - 1) : conds[k].name # cond_name)
    ELSE conds

\* run_trials has returned with the stop flag clear: beep, take the condition
\* off the queue, clear the override, enable Next
RccComplete(w) ==
    /\ pc[w] = "ran"
    /\ ~stop_requested
    /\ ~(override_condition_name = NoName /\ remaining_conditions = <<>>)
    /\ remaining_conditions' =
          IF override_condition_name = NoName
          THEN Tail(remaining_conditions)
          ELSE RemoveNamed(remaining_conditions, frame[w].cond_name)
    /\ override_condition_name' = NoName
    /\ is_redo_run' = FALSE
    /\ next_btn' = "normal"
    /\ completed' = completed \cup {frame[w].cond_name}
    /\ Exit(w)
    /\ UNCHANGED <<canonical_conditions, current_condition_name, stop_requested,
                   start_btn, stop_btn, redo_btn, dropdown_values, in_waiting>>
    /\ Quiet /\ Silent /\ Program

\* remaining_conditions.pop(0) on the empty list raises after the beep
RccPopEmpty(w) ==
    /\ pc[w] = "ran"
    /\ ~stop_requested
    /\ override_condition_name = NoName /\ remaining_conditions = <<>>
    /\ completed' = completed \cup {frame[w].cond_name}
    /\ Raise(w, "IndexError")
    /\ UNCHANGED <<globals, widgets, in_waiting>>
    /\ Silent /\ Program

run_current_condition(w) ==
    \/ RccDone(w) \/ RccNotFound(w) \/ RccRun(w)
    \/ RccStopped(w) \/ RccComplete(w) \/ RccPopEmpty(w)

\* ------------------------------------------------------------ the other controls
\* the Next Condition button is pressed: a thread runs next_condition
NextClick ==
    /\ next_btn = "normal"
    /\ \E w \in Workers : Start(w, "next_condition")
    /\ UNCHANGED <<globals, widgets, in_waiting, frame>>
    /\ Quiet /\ Silent /\ NoBeep /\ Click

\* next_condition disables the button and hands over to a thread that
\* runs run_current_condition
next_condition(w) ==
    /\ pc[w] = "next_condition"
    /\ next_btn' = "disabled"
    /\ frame' = [frame EXCEPT ![w].started_by = "next_condition"]
    /\ Goto(w, "run_current_condition")
    /\ UNCHANGED <<globals, start_btn, stop_btn, redo_btn, dropdown_values,
                   in_waiting>>
    /\ Quiet /\ Silent /\ NoBeep /\ Program

\* positions inside run_trials
InTrials == {"run_trials", "wait_for_press", "waited", "sleep"}

\* the Stop button is pressed
stop_experiment ==
    /\ stop_btn = "normal"
    /\ stop_requested' = TRUE
    /\ next_btn' = "normal"
    /\ frame' = [w \in Workers |->
                   IF pc[w] \in InTrials THEN [frame[w] EXCEPT !.stop_seen = TRUE]
                   ELSE frame[w]]
    /\ UNCHANGED <<canonical_conditions, remaining_conditions, current_condition_name,
                   override_condition_name, is_redo_run, start_btn, stop_btn, redo_btn,
                   dropdown_values, in_waiting, pc>>
    /\ Quiet /\ Silent /\ NoBeep /\ Click

\* an entry of the dropdown is selected and the operator answers the prompt
select_override ==
    \E k \in 1..Len(dropdown_values), confirm_override \in BOOLEAN :
       LET selected == dropdown_values[k] IN
       IF confirm_override
       THEN /\ override_condition_name' = selected
            /\ is_redo_run' = TRUE
            /\ next_btn' = "disabled"
            /\ \E w \in Workers : Start(w, "run_current_condition")
            /\ UNCHANGED <<canonical_conditions, remaining_conditions,
                           current_condition_name, stop_requested, start_btn, stop_btn,
                           redo_btn, dropdown_values, in_waiting, frame>>
            /\ Quiet /\ Silent /\ NoBeep /\ Click
       ELSE \* current_conditions[current_index] on the empty list raises
            \* IndexError in the callback: Tk reports it and goes on
            /\ current_index + 1 > Len(current_conditions)
            /\ UNCHANGED <<globals, widgets, in_waiting, pc, frame>>
            /\ Quiet /\ Silent /\ NoBeep /\ Click

\* the Redo button is pressed: current_conditions[current_index] is evaluated
\* before the prompt and raises IndexError in the callback, on the empty list:
\* Tk reports it and goes on, nothing is assigned and no thread is started
redo_current_condition ==
    /\ redo_btn = "normal"
    /\ current_index + 1 > Len(current_conditions)
    /\ UNCHANGED <<globals, widgets, in_waiting, pc, frame>>
    /\ Quiet /\ Silent /\ NoBeep /\ Click

\* ------------------------------------------------------------ the program
Next ==
    \/ StartClick \/ NextClick \/ stop_experiment \/ select_override
    \/ redo_current_condition \/ Arrive
    \/ \E w \in Workers :
         \/ start_experiment(w) \/ next_condition(w) \/ run_current_condition(w)
         \/ run_trials(w) \/ wait_for_press(w)

Spec == Init /\ [][Next]_vars


\* ------------------------------------------------------------ the program from load
\* The session from module load to the end of its first run, with a silent
\* peer: Start is pressed once.  The module-level lists are never assigned,
\* so no step of run_trials, of wait_for_press or of the completion code is
\* among the steps the program can take.
FirstStart == clicks = 0 /\ StartClick

NextLoad ==
    \/ FirstStart \/ NextClick \/ stop_experiment \/ select_override
    \/ redo_current_condition
    \/ \E w \in Workers :
         \/ start_experiment(w) \/ next_condition(w)
         \/ RccDone(w) \/ RccNotFound(w)

SpecLoad == Init /\ [][NextLoad]_vars

\* ------------------------------------------------------------ one run of the controller
\* The run the controller functions are written for: the list build_conditions
\* returned is in canonical_conditions and remaining_conditions (what lines
\* 330-331 are there to do), the controls are as lines 321-338 leave them, and
\* the thread of start_experiment is about to call run_current_condition.
\* The conditions are the first RunConds archetypes with RunTrials trials each.
RunTrialsOf(a) ==
    LET common == a.trials[1].pattern
        rare == a.trials[Len(a.trials)].pattern
    IN [j \in 1..RunTrials |->
          [pattern |-> IF j % 2 = 0 /\ j \div 2 <= TrialsRare THEN rare ELSE common]]

RunList ==
    [j \in 1..(IF RunConds < 8 THEN RunConds ELSE 8) |->
        [name |-> ExtArchetypes[j].name, trials |-> RunTrialsOf(ExtArchetypes[j])]]

InitBuilt ==
    /\ canonical_conditions \in Shuffle(RunList)
    /\ remaining_conditions = canonical_conditions
    /\ current_condition_name = NoName
    /\ override_condition_name = NoName
    /\ is_redo_run = FALSE
    /\ stop_requested = FALSE
    /\ start_btn = "disabled"
    /\ stop_btn = "normal"
    /\ next_btn = "disabled"
    /\ redo_btn = "normal"
    /\ dropdown_values = Names(canonical_conditions)
    /\ in_waiting = <<>>
    /\ sent = NoCommand
    /\ exc = NoName
    /\ pc = [w \in Workers |-> IF w = 1 THEN "run_current_condition" ELSE "none"]
    /\ frame = [w \in Workers |-> NoFrame]
    /\ completed = {}
    /\ clicks = 0

\* One run, up to the point where Start is enabled again.  The peer writes
\* nothing during the run; the dropdown offers the names the run was built with,
\* so an override is always found.
NextCtl ==
    \/ NextClick \/ stop_experiment \/ select_override
    \/ redo_current_condition
    \/ \E w \in Workers :
         \/ next_condition(w)
         \/ RccDone(w) \/ RccRun(w) \/ RccStopped(w) \/ RccComplete(w) \/ RccPopEmpty(w)
         \/ run_trials(w)
         \/ WaitTimeout(w) \/ WaitStopped(w) \/ WaitIdle(w)

SpecCtl == InitBuilt /\ [][NextCtl]_vars

\* the Stop button during a run: the base variant has none
StopButtonOf(variant) == IF variant = "ext" THEN "normal" ELSE "disabled"

\* ------------------------------------------------------------ wait_for_press on its own
\* One call wait_for_press(timeout_ms, expected_buttons) in either variant, with
\* any lines already in the buffer; the peer writes lines and Stop may be pressed
\* (extended variant).
InitWait ==
    /\ Init!1 /\ Init!2 /\ Init!3 /\ Init!4 /\ Init!5 /\ Init!6 /\ Init!7
    /\ Init!9 /\ Init!10 /\ Init!11 /\ Init!13 /\ Init!14 /\ Init!17 /\ Init!18
    /\ in_waiting \in {<<>>} \cup {<<line>> : line \in Lines}
    /\ pc = [w \in Workers |-> IF w = 1 THEN "wait_for_press" ELSE "none"]
    /\ \E v \in {"ext", "base"}, e \in SUBSET Buttons :
         /\ stop_btn = StopButtonOf(v)
         /\ frame = [w \in Workers |->
                      IF w = 1 THEN [NoFrame EXCEPT !.variant = v, !.expected_buttons = e]
                      ELSE NoFrame]

NextWait == Arrive \/ stop_experiment \/ wait_for_press(1)

SpecWait == InitWait /\ [][NextWait]_vars

\* ------------------------------------------------------------ run_trials on its own
\* One call run_trials(trials, cond_name) in either variant on any list of up to
\* MaxTrials trials; the peer writes lines and Stop may be pressed (extended
\* variant).
TrialLists == UNION {[1..n -> {[pattern |-> p] : p \in Patterns}] : n \in 1..MaxTrials}

InitTrials ==
    /\ Init!1 /\ Init!2 /\ Init!3 /\ Init!4 /\ Init!5 /\ Init!6 /\ Init!7
    /\ Init!9 /\ Init!10 /\ Init!11 /\ Init!12 /\ Init!13 /\ Init!14 /\ Init!17 /\ Init!18
    /\ pc = [w \in Workers |-> IF w = 1 THEN "run_trials" ELSE "none"]
    /\ \E v \in {"ext", "base"}, trials \in TrialLists :
         /\ stop_btn = StopButtonOf(v)
         /\ frame = [w \in Workers |->
                      IF w = 1 THEN [NoFrame EXCEPT !.variant = v, !.trials = trials,
                                                    !.cond_name = "Condition"]
                      ELSE NoFrame]

NextTrials == Arrive \/ stop_experiment \/ run_trials(1) \/ wait_for_press(1)

SpecTrials == InitTrials /\ [][NextTrials]_vars


\* ============================================================ claims
Reds == {"STOP_RED", "ONLY_RED"}
BlueClass == {"GO_BLUE", "ONLY_BLUE"}

CountPattern(trials, p) == Cardinality({k \in 1..Len(trials) : trials[k].pattern = p})

\* ------------------------------------------------------------ build_conditions
\* C6: in every list build_conditions returns, no condition has two trials
\* of the patterns STOP_RED / ONLY_RED next to each other.
C6_NoAdjacentRed ==
    \A w \in Workers :
      pc[w] = "built" =>
        \A j \in 1..Len(frame[w].built) :
          LET trials == frame[w].built[j].trials IN
          \A k \in 1..(Len(trials) - 1) :
            ~(trials[k].pattern \in Reds /\ trials[k + 1].pattern \in Reds)

\* a returned list of the extended variant in which a mixed condition starts
\* with a red trial: the reshuffle loop has moved the reds
C6_Witness ==
    /\ pc[1] = "built" /\ frame[1].variant = "ext"
    /\ \E j \in 1..Len(frame[1].built) :
         LET trials == frame[1].built[j].trials IN
         /\ trials[1].pattern \in Reds
         /\ trials[Len(trials)].pattern \in Reds

\* C8: whatever the shuffles do, build_conditions returns every archetype name
\* exactly once (the first NumConds archetypes of the extended list, the four
\* of the base variant), each with TrialsSimple = 10 trials, a simple condition
\* all of one pattern, a mixed one with TrialsCommon = 8 of its common and
\* TrialsRare = 2 of its rare pattern.
C8_Structure ==
    \A w \in Workers :
      pc[w] = "built" =>
        LET built == frame[w].built
            arch == IF frame[w].variant = "ext"
                    THEN SubSeq(ExtArchetypes, 1, IF NumConds < 8 THEN NumConds ELSE 8)
                    ELSE BaseArchetypes
        IN
        /\ Len(built) = Len(arch)
        /\ \A a \in 1..Len(arch) :
             /\ Cardinality({j \in 1..Len(built) : built[j].name = arch[a].name}) = 1
             /\ \A j \in 1..Len(built) :
                  built[j].name = arch[a].name =>
                    LET trials == built[j].trials
                        common == arch[a].trials[1].pattern
                        rare == arch[a].trials[Len(arch[a].trials)].pattern
                    IN
                    /\ Len(trials) = TrialsSimple
                    /\ IF a % 2 = 1
                       THEN \A k \in 1..Len(trials) : trials[k].pattern = common
                       ELSE /\ common # rare
                            /\ CountPattern(trials, common) = TrialsCommon
                            /\ CountPattern(trials, rare) = TrialsRare

\* a returned list of the extended variant whose order is not the order of
\* construction and whose first mixed condition has been reordered
C8_Witness ==
    /\ pc[1] = "built" /\ frame[1].variant = "ext"
    /\ frame[1].built[1].name # ExtArchetypes[1].name
    /\ \E j \in 1..Len(frame[1].built) :
         /\ frame[1].built[j].name = ExtArchetypes[2].name
         /\ frame[1].built[j].trials # ExtArchetypes[2].trials

\* no two trials of the patterns in red are next to each other
Apart(trials, red) ==
    \A k \in 1..(Len(trials) - 1) :
        ~(trials[k].pattern \in red /\ trials[k + 1].pattern \in red)

\* C21: the reshuffle loop of build_conditions terminates. A pass of the loop
\* leaves it (the index moves on to the next mixed condition) exactly when the
\* order it has just shuffled keeps the red trials apart; whatever the current
\* order of a mixed condition (TrialsCommon = 8 common, TrialsRare = 2 rare
\* trials), some order random.shuffle can produce keeps them apart; and under
\* a fair choice of shuffles build_conditions eventually returns.
C21_LoopTerminates ==
    /\ [][\A w \in Workers :
            (/\ pc[w] = "shuffle"
             /\ frame[w].i \in ShuffledIdx(frame[w].variant)
             /\ frame'[w] # frame[w]) =>
              LET i == frame[w].i
                  red == RedClass(frame[w].variant, i)
              IN
              IF Apart(frame'[w].base_conditions[i].trials, red)
              THEN frame'[w].i = i + 2
              ELSE frame'[w].i = i]_vars
    /\ [](\A w \in Workers :
            (pc[w] = "shuffle" /\ frame[w].i \in ShuffledIdx(frame[w].variant)) =>
              LET trials == frame[w].base_conditions[frame[w].i].trials IN
              /\ CountPattern(trials, trials[1].pattern) \in {TrialsCommon, TrialsRare}
              /\ \E q \in Shuffle(trials) :
                   Apart(q, RedClass(frame[w].variant, frame[w].i)))
    /\ <>(pc[1] = "built")

\* the loop of the first mixed condition has been left and the loop of the
\* second has just rejected an order: its red trials touch, and the order is
\* not the order of construction
C21_Witness ==
    /\ pc[1] = "shuffle" /\ frame[1].i = 4
    /\ Apart(frame[1].base_conditions[2].trials, RedClass(frame[1].variant, 2))
    /\ frame[1].base_conditions[2].trials # Archetypes(frame[1].variant)[2].trials
    /\ ~Apart(frame[1].base_conditions[4].trials, RedClass(frame[1].variant, 4))
    /\ frame[1].base_conditions[4].trials # Archetypes(frame[1].variant)[4].trials

\* ------------------------------------------------------------ run_trials
CommandTarget(cmd) == cmd.buttons[Len(cmd.buttons)]

\* C7: within one call of run_trials, the command of a GO_BLUE or ONLY_BLUE
\* trial never names the target of the last GO_BLUE/ONLY_BLUE command before
\* it, and the command of an ONLY_RED trial never names the target of the last
\* ONLY_RED command before it.
C7_NoRepeat ==
    [][\A w \in Workers :
         (sent' # NoCommand /\ sent'.by = w) =>
            /\ sent'.cmd \in BlueClass => CommandTarget(sent') # frame[w].sent_blue
            /\ sent'.cmd = "ONLY_RED" => CommandTarget(sent') # frame[w].sent_only_red]_vars

\* the command of a GO_BLUE trial has been written right after an ONLY_BLUE
\* trial whose command named a button
C7_Witness ==
    /\ sent # NoCommand /\ sent.cmd = "GO_BLUE" /\ sent.trial = 1
    /\ frame[1].trials[1].pattern = "ONLY_BLUE"
    /\ frame[1].last_blue \in Buttons

\* ------------------------------------------------------------ wait_for_press
PressLine(b) == <<"PRESSED", Digits[b + 1]>>

\* the step reads the line at the head of the buffer
Reads(w) ==
    /\ pc[w] = "wait_for_press"
    /\ in_waiting # <<>>
    /\ in_waiting' = Tail(in_waiting)

\* C9: wait_for_press returns a button only when it has just read, before the
\* deadline, a PRESSED line naming a button of expected_buttons, and returns
\* that button; a PRESSED line naming a button outside expected_buttons is
\* dropped and the call goes on polling; a matching line read after a line
\* was dropped is still returned.
C9_PressReturned ==
    [][\A w \in Workers :
         /\ (pc[w] = "wait_for_press" /\ pc'[w] = "waited" /\ frame'[w].press # None) =>
               /\ Reads(w)
               /\ frame[w].elapsed < TimeoutTicks
               /\ frame'[w].press \in frame[w].expected_buttons
               /\ Head(in_waiting) = PressLine(frame'[w].press)
         /\ (Reads(w) /\ \E b \in (0..9) \ frame[w].expected_buttons :
                            Head(in_waiting) = PressLine(b)) =>
               /\ pc'[w] = "wait_for_press"
               /\ frame'[w].press = None
         /\ (Reads(w) /\ frame[w].line # <<>>
                      /\ \E b \in frame[w].expected_buttons :
                            Head(in_waiting) = PressLine(b)) =>
               /\ pc'[w] = "waited"
               /\ Head(in_waiting) = PressLine(frame'[w].press)]_vars

\* the call has dropped a press of a button it does not expect and a press of
\* an expected button is now at the head of the buffer, before the deadline
C9_Witness ==
    /\ pc[1] = "wait_for_press"
    /\ frame[1].elapsed < TimeoutTicks
    /\ ~(frame[1].variant = "ext" /\ stop_requested)
    /\ \E b \in Buttons \ frame[1].expected_buttons : frame[1].line = PressLine(b)
    /\ in_waiting # <<>>
    /\ \E b \in frame[1].expected_buttons : Head(in_waiting) = PressLine(b)

\* C10: wait_for_press ends by returning, whatever lines arrive: the button of
\* an expected press it has read, "no result" otherwise.
C10_ReturnsNoResult ==
    [][\A w \in Workers :
         (pc[w] = "wait_for_press" /\ pc'[w] # "wait_for_press") =>
            /\ pc'[w] = "waited"
            /\ \/ frame'[w].press = None
               \/ /\ in_waiting # <<>>
                  /\ Head(in_waiting) = PressLine(frame'[w].press)
                  /\ frame'[w].press \in frame[w].expected_buttons]_vars

\* ------------------------------------------------------------ controller
\* a thread is executing start_experiment or run_current_condition
WorkerTask(w) == pc[w] \notin {"none", "next_condition"}

\* the step is the end of worker w's run_current_condition past run_trials
Finishes(w) == pc[w] = "ran" /\ pc'[w] = "none"

\* the names in the queue before the step that are not in it after
Removed ==
    {n \in Range(Names(remaining_conditions)) :
        n \notin Range(Names(remaining_conditions'))}

C3_OneWorker == Cardinality({w \in Workers : WorkerTask(w)}) <= 1

WorkerStep(w) == clicks' = clicks /\ (pc'[w] # pc[w] \/ frame'[w] # frame[w])

\* C11: in the extended variant, once stop_requested is set while
\* wait_for_press is polling, the next step of the call is its return of "no
\* result": no line is read, no press accepted, no further sleep taken.
C11_StopEndsWait ==
    [][\A w \in Workers :
         (/\ pc[w] = "wait_for_press" /\ frame[w].variant = "ext"
          /\ stop_requested /\ WorkerStep(w)) =>
            /\ pc'[w] = "waited"
            /\ frame'[w].press = None
            /\ in_waiting' = in_waiting
            /\ exc' = NoName]_vars

\* the call has returned "no result" under a stop although a press of an
\* expected button is waiting in the buffer
C11_Witness ==
    /\ pc[1] = "waited" /\ frame[1].variant = "ext"
    /\ stop_requested /\ frame[1].stop_seen
    /\ frame[1].press = None
    /\ in_waiting # <<>>
    /\ \E b \in frame[1].expected_buttons : Head(in_waiting) = PressLine(b)

\* a line that is no PRESSED line with a decimal index: unrelated or malformed
Malformed(line) == \A b \in 0..9 : line # PressLine(b)

\* C17: a malformed or unrelated line that wait_for_press reads is dropped
\* and the call goes on polling: nothing is raised and the thread stays alive.
C17_MalformedDiscarded ==
    [][\A w \in Workers :
         (Reads(w) /\ WorkerStep(w) /\ Malformed(Head(in_waiting))) =>
            /\ pc'[w] = "wait_for_press"
            /\ exc' = NoName]_vars

\* ------------------------------------------------------------ trials
\* C19: in the extended variant, after the wait_for_press of a STOP_RED trial
\* the 3 s pause is taken exactly when a press was returned (the press of the
\* red button); with no press the next trial follows at once.
C19_StopRedPause ==
    [][\A w \in Workers :
         (/\ pc[w] = "waited" /\ frame[w].variant = "ext"
          /\ frame[w].trials[frame[w].trial_num + 1].pattern = "STOP_RED"
          /\ WorkerStep(w)) =>
            /\ (frame[w].press # None) <=> (pc'[w] = "sleep")
            /\ frame[w].press # None => frame[w].press = frame[w].button
            /\ frame[w].press = None =>
                  /\ pc'[w] = "run_trials"
                  /\ frame'[w].trial_num = frame[w].trial_num + 1]_vars

\* the pause of a STOP_RED trial of the extended variant is being taken
C19_Witness ==
    /\ pc[1] = "sleep" /\ frame[1].variant = "ext"
    /\ frame[1].trials[frame[1].trial_num + 1].pattern = "STOP_RED"

\* C20: an ONLY_BLUE or ONLY_RED command lists every button index exactly
\* once, the target last; a GO_BLUE or STOP_RED command names one index of
\* 0..NUM_BUTTONS-1.
C20_CommandShape ==
    sent # NoCommand =>
       IF sent.cmd \in {"ONLY_BLUE", "ONLY_RED"}
       THEN /\ Len(sent.buttons) = NUM_BUTTONS
            /\ \A b \in 0..(NUM_BUTTONS - 1) :
                  Cardinality({j \in 1..Len(sent.buttons) : sent.buttons[j] = b}) = 1
            /\ sent.buttons[Len(sent.buttons)] = frame[sent.by].button
            /\ frame[sent.by].expected_buttons = {frame[sent.by].button}
       ELSE /\ sent.cmd \in {"GO_BLUE", "STOP_RED"}
            /\ Len(sent.buttons) = 1
            /\ sent.buttons[1] \in 0..(NUM_BUTTONS - 1)

\* an ONLY_RED command whose target is button 0 has been written
C20_Witness ==
    /\ sent # NoCommand /\ sent.cmd = "ONLY_RED"
    /\ sent.buttons[Len(sent.buttons)] = 0
    /\ sent.buttons[1] # 0

\* ------------------------------------------------------------ controller: signals
\* the name of the condition a run_current_condition call would start in the
\* state after the step: the pending override, else the head of the queue
NextTarget ==
    IF override_condition_name' # NoName THEN override_condition_name'
    ELSE IF remaining_conditions' # <<>> THEN remaining_conditions'[1].name
    ELSE NoName

C16_InvalidSignalNoOp ==
    [][(clicks' # clicks /\ \E w \in Workers : WorkerTask(w)) =>
          /\ override_condition_name' = override_condition_name
          /\ remaining_conditions' = remaining_conditions
          /\ pc' = pc
          /\ (stop_requested' = stop_requested \/ stop_requested')]_vars

C12_StartRunsFirst ==
    [][\A w \in Workers :
         (/\ pc[w] = "run_current_condition"
          /\ frame[w].started_by = "start_experiment"
          /\ WorkerStep(w)) =>
            /\ pc'[w] = "run_trials"
            /\ frame'[w].cond_name = dropdown_values[1]]_vars

C23_NoStalePress ==
    [][\A w \in Workers :
         (/\ sent # NoCommand /\ sent.by = w
          /\ Reads(w)) =>
            ~(pc'[w] = "waited" /\ frame'[w].press # None)]_vars

====
